---- MODULE Spec2Model ----
\* Model of setup.py: the CMake build command (cmake_build_ext) and the
\* patched install_data command.
\*
\* Paths are records [abs, parts]; Str renders them as the posix strings the
\* program passes around.  External processes (cmake) are the environment:
\* each subprocess.call draws its outcome from Results.
EXTENDS Integers, Sequences, FiniteSets, TLC

VARIABLES
    \* ---- cmake_build_ext ----
    dry_run,            \* self.dry_run
    debug,              \* self.debug
    plat,               \* platform.system()
    arch,               \* platform.architecture()[0]
    compiler_type,      \* self.compiler.compiler_type
    extensions,         \* self.extensions
    cmake_config_args,  \* self.cmake_config_args after finalize_options
    cmake_build_args,   \* self.cmake_build_args after finalize_options
    pc,                 \* position inside build_extensions
    idx,                \* index of the extension of the running loop iteration
    log,                \* commands written by log.info, in order
    executed,           \* subprocess.call invocations with their outcome, in order
    dirs,               \* directories that exist
    created,            \* directories os.makedirs had to create in this run
    error,              \* the exception leaving build_extensions, if any
    \* ---- install_data ----
    data_files,         \* self.data_files (the manifest)
    root,               \* self.root
    ipc,                \* position inside install_data.run
    i,                  \* index of the manifest entry being processed
    j,                  \* index of the source being copied inside a tuple entry
    curdir,             \* resolved target directory of the running tuple entry
    outfiles,           \* self.outfiles
    events,             \* mkpath / copy / warn calls, in order
    ierror              \* the exception leaving run, if any

bvars == <<dry_run, debug, plat, arch, compiler_type, extensions,
           cmake_config_args, cmake_build_args, pc, idx, log, executed,
           dirs, created, error>>
ivars == <<data_files, root, ipc, i, j, curdir, outfiles, events, ierror>>
vars == <<dry_run, debug, plat, arch, compiler_type, extensions,
          cmake_config_args, cmake_build_args, pc, idx, log, executed,
          dirs, created, error,
          data_files, root, ipc, i, j, curdir, outfiles, events, ierror>>

\* ------------------------------------------------------------------ bounds
MaxExt == 2
MaxExitCode == 2
MaxEntries == 2

\* ------------------------------------------------------------------- paths
Path(a, ps) == [abs |-> a, parts |-> ps]

RECURSIVE JoinParts(_)
JoinParts(ps) ==
    IF ps = <<>> THEN ""
    ELSE IF Len(ps) = 1 THEN ps[1]
    ELSE ps[1] \o "/" \o JoinParts(Tail(ps))

\* the string form of a path
Str(p) == (IF p.abs THEN "/" ELSE "") \o JoinParts(p.parts)

\* os.path.join(a, b): an absolute b discards a
Join(a, b) == IF b.abs THEN b ELSE Path(a.abs, a.parts \o b.parts)

\* os.path.basename
Basename(p) == IF p.parts = <<>> THEN "" ELSE p.parts[Len(p.parts)]

\* os.path.dirname
Dirname(p) ==
    IF p.parts = <<>> THEN p ELSE Path(p.abs, SubSeq(p.parts, 1, Len(p.parts) - 1))

Cwd == Path(TRUE, <<"proj">>)

\* os.path.abspath
Abspath(p) == IF p.abs THEN p ELSE Join(Cwd, p)

\* ---------------------------------------------------------- CMakeExtension
\* name is the dotted module name split at the dots; source_dir defaults to '.'
CMakeExtension(name, source_dir) ==
    [name |-> name, cmake_source_dir |-> Abspath(source_dir)]

ExtNames == {<<"openpose">>, <<"pkg", "mod">>}

Extensions == {CMakeExtension(n, Path(FALSE, <<>>)) : n \in ExtNames}

\* --------------------------------------------------------- cmake_build_ext
build_temp == Path(FALSE, <<"build", "temp">>)
build_lib == Path(FALSE, <<"build", "lib">>)
sys_executable == "/usr/bin/python3"

\* build_ext.get_ext_fullpath: build_lib/<package dirs>/<module file>
get_ext_fullpath(name) ==
    Join(build_lib, Path(FALSE, SubSeq(name, 1, Len(name) - 1)
                                 \o <<name[Len(name)] \o ".so">>))

\* outcome of one subprocess.call
Ok == [launched |-> TRUE, exitcode |-> 0, oserr |-> ""]
ExitWith(c) == [launched |-> TRUE, exitcode |-> c, oserr |-> ""]
LaunchFailure == [launched |-> FALSE, exitcode |-> 0, oserr |-> "No such file or directory"]
Results == {Ok, LaunchFailure} \cup {ExitWith(c) : c \in 1..MaxExitCode}

NoError == [raised |-> FALSE, type |-> "", text |-> "", cmd |-> <<>>, detail |-> ""]
\* DistutilsExecError(text % (cmd, detail))
DistutilsExecError(text, cmd, detail) ==
    [raised |-> TRUE, type |-> "DistutilsExecError", text |-> text,
     cmd |-> cmd, detail |-> detail]

CannotFindCMake == "cannot find CMake executable"
FailedOsError == "command %r failed: %s"
FailedExitCode == "command %r failed with exit code %s"

\* mutant of spawn: a non-zero exit code is not turned into an error
SpawnIgnoringExitCode(cmd, dry, r) ==
    [logged |-> cmd,
     ran |-> ~dry,
     err |-> IF dry THEN NoError
             ELSE IF ~r.launched THEN DistutilsExecError(FailedOsError, cmd, r.oserr)
             ELSE NoError]

\* cmake_build_ext.spawn: logs, returns early under dry_run, else runs the
\* command; r is what subprocess.call did
spawn(cmd, dry, r) ==
    [logged |-> cmd,
     ran |-> ~dry,
     err |-> IF dry THEN NoError
             ELSE IF ~r.launched THEN DistutilsExecError(FailedOsError, cmd, r.oserr)
             ELSE IF r.exitcode # 0
                  THEN DistutilsExecError(FailedExitCode, cmd, ToString(r.exitcode))
             ELSE NoError]

Upper == [s \in {"Release", "Debug"} |-> IF s = "Release" THEN "RELEASE" ELSE "DEBUG"]

\* mutant of Cfg: the override of line 70 is missing
CfgFromDebug(dbg) == IF dbg THEN "Debug" ELSE "Release"

\* cfg: chosen from self.debug, then overwritten
Cfg(dbg) ==
    LET cfg0 == IF dbg THEN "Debug" ELSE "Release"
        cfg1 == "Release"
    IN  cfg1

ExtDir(ext) ==
    Join(Abspath(Dirname(get_ext_fullpath(ext.name))), Path(FALSE, <<"openpose">>))

\* mutant of WindowsArgs: the generator platform is pinned for every compiler
WindowsArgsAnyCompiler(system, architecture, ctype, cfg, extdir) ==
    IF system = "Windows"
    THEN <<"-DCMAKE_WINDOWS_EXPORT_ALL_SYMBOLS=TRUE",
           "-DCMAKE_RUNTIME_OUTPUT_DIRECTORY_" \o Upper[cfg] \o "=" \o Str(extdir),
           "-DCMAKE_GENERATOR_PLATFORM="
               \o (IF architecture = "64bit" THEN "x64" ELSE "Win32")>>
    ELSE <<>>

\* the platform-specific part of cmake_args
WindowsArgs(system, architecture, ctype, cfg, extdir) ==
    IF system = "Windows"
    THEN LET plt == IF architecture = "64bit" THEN "x64" ELSE "Win32"
         IN  <<"-DCMAKE_WINDOWS_EXPORT_ALL_SYMBOLS=TRUE",
               "-DCMAKE_RUNTIME_OUTPUT_DIRECTORY_" \o Upper[cfg] \o "=" \o Str(extdir)>>
             \o (IF ctype = "msvc"
                 THEN <<"-DCMAKE_GENERATOR_PLATFORM=" \o plt>>
                 ELSE <<>>)
    ELSE <<>>

\* cmake_args of one loop iteration
CMakeArgs(ext, dbg, system, architecture, ctype) ==
    LET cfg == Cfg(dbg)
        extdir == ExtDir(ext)
    IN  <<"-DCMAKE_BUILD_TYPE=" \o cfg,
          "-DCMAKE_LIBRARY_OUTPUT_DIRECTORY_" \o Upper[cfg] \o "=" \o Str(extdir),
          "-DCMAKE_ARCHIVE_OUTPUT_DIRECTORY_" \o Upper[cfg] \o "=" \o Str(build_temp),
          "-DPYTHON_EXECUTABLE=" \o sys_executable,
          "-DBUILD_PYTHON=ON">>
        \o WindowsArgs(system, architecture, ctype, cfg, extdir)

VersionCmd == <<"cmake", "--version">>
ConfigCmd(ext) ==
    <<"cmake", Str(ext.cmake_source_dir)>>
        \o CMakeArgs(ext, debug, plat, arch, compiler_type) \o cmake_config_args
BuildCmd(ext) ==
    <<"cmake", "--build", ".", "--config", Cfg(debug)>> \o cmake_build_args

\* user-supplied extra arguments, tokenised by finalize_options
ConfigArgChoices == {<<>>, <<"-DUSE_CUDNN=OFF">>}
BuildArgChoices == {<<>>, <<"--", "-j4">>}

RECURSIVE SeqsUpTo(_, _)
SeqsUpTo(S, n) ==
    IF n = 0 THEN {<<>>}
    ELSE LET shorter == SeqsUpTo(S, n - 1)
         IN  shorter \cup {Append(s, x) : s \in {t \in shorter : Len(t) = n - 1}, x \in S}

InstallIdle ==
    /\ data_files = <<>>
    /\ root = Path(FALSE, <<>>)
    /\ ipc = "idle"
    /\ i = 0
    /\ j = 0
    /\ curdir = Path(FALSE, <<>>)
    /\ outfiles = <<>>
    /\ events = <<>>
    /\ ierror = ""

InitBuild ==
    /\ dry_run \in BOOLEAN
    /\ debug \in BOOLEAN
    /\ plat \in {"Linux", "Darwin", "Windows"}
    /\ arch \in {"64bit", "32bit"}
    /\ compiler_type \in {"unix", "msvc", "mingw32"}
    /\ extensions \in SeqsUpTo(Extensions, MaxExt)
    /\ cmake_config_args \in ConfigArgChoices
    /\ cmake_build_args \in BuildArgChoices
    /\ pc = "check"
    /\ idx = 0
    /\ log = <<>>
    /\ executed = <<>>
    /\ dirs \in {{}, {build_temp}}
    /\ created = {}
    /\ error = NoError
    /\ InstallIdle

Logged(phase, s) == [phase |-> phase, ext |-> idx, cmd |-> s.logged]
Executed(phase, s, r) == [phase |-> phase, ext |-> idx, cmd |-> s.logged, result |-> r]

\* lines 59-63: the version check, always spawned with dry_run=False; every
\* DistutilsExecError of it is replaced by the fixed message
CheckTool(r) ==
    /\ pc = "check"
    /\ LET s == spawn(VersionCmd, FALSE, r)
       IN  /\ log' = Append(log, Logged("check", s))
           /\ executed' = IF s.ran THEN Append(executed, Executed("check", s, r))
                          ELSE executed
           /\ IF s.err.raised
              THEN /\ error' = DistutilsExecError(CannotFindCMake, <<>>, "")
                   /\ pc' = "failed"
                   /\ idx' = idx
              ELSE /\ error' = error
                   /\ pc' = IF Len(extensions) = 0 THEN "done" ELSE "config"
                   /\ idx' = IF Len(extensions) = 0 THEN idx ELSE 1
    /\ UNCHANGED <<dry_run, debug, plat, arch, compiler_type, extensions,
                   cmake_config_args, cmake_build_args, dirs, created>>
    /\ UNCHANGED ivars

\* lines 67-109: arguments, os.makedirs(build_temp, exist_ok=True), configure
ConfigureExt(r) ==
    /\ pc = "config"
    /\ LET ext == extensions[idx]
           s == spawn(ConfigCmd(ext), dry_run, r)
       IN  /\ dirs' = dirs \cup {build_temp}
           /\ created' = IF build_temp \in dirs THEN created
                         ELSE created \cup {build_temp}
           /\ log' = Append(log, Logged("config", s))
           /\ executed' = IF s.ran THEN Append(executed, Executed("config", s, r))
                          ELSE executed
           /\ error' = s.err
           /\ pc' = IF s.err.raised THEN "failed" ELSE "build"
    /\ UNCHANGED <<dry_run, debug, plat, arch, compiler_type, extensions,
                   cmake_config_args, cmake_build_args, idx>>
    /\ UNCHANGED ivars

\* lines 111-113: build, then the next loop iteration or the end
BuildExt(r) ==
    /\ pc = "build"
    /\ LET ext == extensions[idx]
           s == spawn(BuildCmd(ext), dry_run, r)
       IN  /\ log' = Append(log, Logged("build", s))
           /\ executed' = IF s.ran THEN Append(executed, Executed("build", s, r))
                          ELSE executed
           /\ error' = s.err
           /\ IF s.err.raised
              THEN pc' = "failed" /\ idx' = idx
              ELSE IF idx < Len(extensions)
                   THEN pc' = "config" /\ idx' = idx + 1
                   ELSE pc' = "done" /\ idx' = idx
    /\ UNCHANGED <<dry_run, debug, plat, arch, compiler_type, extensions,
                   cmake_config_args, cmake_build_args, dirs, created>>
    /\ UNCHANGED ivars

NextBuild ==
    \/ \E r \in Results : CheckTool(r)
    \/ \E r \in Results : ConfigureExt(r)
    \/ \E r \in Results : BuildExt(r)

SpecBuild == InitBuild /\ [][NextBuild]_vars


\* ------------------------------------------------------------ install_data
install_dir == Path(TRUE, <<"dst">>)
\* distutils sets warn_dir on; the warning of a bare entry is then issued
warn_dir == TRUE

models == Path(FALSE, <<"models">>)
README == Path(FALSE, <<"README">>)
missing == Path(FALSE, <<"missing">>)
Sources == {models, README, missing}

\* what os.path.isdir / os.path.isfile see in the source tree
Kind(p) ==
    IF p = models THEN "dir" ELSE IF p = README THEN "file" ELSE "none"

\* the regular files below a source directory, relative to it
Tree(p) ==
    IF p = models
    THEN <<Path(FALSE, <<"getModels.sh">>), Path(FALSE, <<"pose", "pose_deploy.prototxt">>)>>
    ELSE <<>>

\* distutils.util.convert_path on a posix host: the path is returned as it is
convert_path(p) == p

\* distutils.util.change_root on a posix host
change_root(new_root, p) ==
    IF ~p.abs THEN Join(new_root, p)
    ELSE Join(new_root, Path(FALSE, p.parts))

\* truth value of self.root (None and '' are false)
RootActive(r) == r.abs \/ r.parts # <<>>

\* an element of self.outfiles: a path, or the list copy_tree returned
PathOut(p) == [isList |-> FALSE, path |-> p, files |-> <<>>]
ListOut(fs) == [isList |-> TRUE, path |-> Path(FALSE, <<>>), files |-> fs]

\* Command.copy_tree: the destination of every file copied
copy_tree(src, dst) == [k \in 1..Len(Tree(src)) |-> Join(dst, Tree(src)[k])]

\* Command.copy_file into an existing directory: (destination, copied)
copy_file(src, dst_dir) == <<Join(dst_dir, Path(FALSE, <<Basename(src)>>)), 1>>

\* install_data.copy_to; ok is whether the copy itself went through
copy_to(file_or_dir, dst_dir, ok) ==
    IF Kind(file_or_dir) = "dir"
    THEN [raised |-> ~ok,
          op |-> "copy_tree",
          dst |-> Join(dst_dir, Path(FALSE, <<Basename(file_or_dir)>>)),
          ret |-> <<ListOut(copy_tree(file_or_dir,
                        Join(dst_dir, Path(FALSE, <<Basename(file_or_dir)>>)))), 1>>]
    ELSE IF Kind(file_or_dir) = "file"
    THEN [raised |-> ~ok,
          op |-> "copy_file",
          dst |-> dst_dir,
          ret |-> <<PathOut(copy_file(file_or_dir, dst_dir)[1]),
                    copy_file(file_or_dir, dst_dir)[2]>>]
    ELSE [raised |-> TRUE,
          op |-> "none",
          dst |-> dst_dir,
          ret |-> <<PathOut(dst_dir), 0>>]

\* mutant of ResolveDir: the root override is ignored
ResolveDirIgnoringRoot(d, r) ==
    IF ~convert_path(d).abs THEN Join(install_dir, convert_path(d))
    ELSE convert_path(d)

\* lines 142-146: the target directory of a tuple entry
ResolveDir(d, r) ==
    LET dir == convert_path(d)
    IN  IF ~dir.abs THEN Join(install_dir, dir)
        ELSE IF RootActive(r) THEN change_root(r, dir)
        ELSE dir

\* manifest entries: a bare path, or (directory, list of sources)
Bare(p) == [tag |-> "str", path |-> p, files |-> <<>>]
Tuple(d, fs) == [tag |-> "tuple", path |-> d, files |-> fs]

TargetDirs == {Path(FALSE, <<"openpose">>), Path(TRUE, <<"opt", "share">>)}
FileLists ==
    {<<>>} \cup {<<s>> : s \in Sources}
           \cup {<<models, README>>, <<README, missing>>, <<missing, models>>}
Entries == {Bare(p) : p \in Sources} \cup {Tuple(d, fs) : d \in TargetDirs, fs \in FileLists}
Roots == {Path(FALSE, <<>>), Path(TRUE, <<"stage">>)}

BuildIdle ==
    /\ dry_run = FALSE
    /\ debug = FALSE
    /\ plat = "Linux"
    /\ arch = "64bit"
    /\ compiler_type = "unix"
    /\ extensions = <<>>
    /\ cmake_config_args = <<>>
    /\ cmake_build_args = <<>>
    /\ pc = "idle"
    /\ idx = 0
    /\ log = <<>>
    /\ executed = <<>>
    /\ dirs = {}
    /\ created = {}
    /\ error = NoError

InitInstall ==
    /\ data_files \in SeqsUpTo(Entries, MaxEntries)
    /\ root \in Roots
    /\ ipc = "start"
    /\ i = 0
    /\ j = 0
    /\ curdir = Path(FALSE, <<>>)
    /\ outfiles = <<>>
    /\ events = <<>>
    /\ ierror = ""
    /\ BuildIdle

Event(op, src, dir, dst, ok) ==
    [op |-> op, entry |-> i, src |-> src, dir |-> dir, dst |-> dst, ok |-> ok]
Mkpath(d) == [op |-> "mkpath", entry |-> i, src |-> d, dir |-> d, dst |-> d, ok |-> TRUE]

\* the events of one copy_to call: nothing is copied for an invalid source
CopyEvents(c, src, dir) ==
    IF c.op = "none" THEN <<>> ELSE <<Event(c.op, src, dir, c.dst, ~c.raised)>>

\* line 129
RunStart ==
    /\ ipc = "start"
    /\ events' = Append(events, Mkpath(install_dir))
    /\ ipc' = "entry"
    /\ i' = 1
    /\ UNCHANGED <<data_files, root, j, curdir, outfiles, ierror>>
    /\ UNCHANGED bvars

\* lines 131-139: a bare path is copied right into install_dir
BareEntry(ok) ==
    /\ ipc = "entry"
    /\ i <= Len(data_files)
    /\ data_files[i].tag = "str"
    /\ LET f == convert_path(data_files[i].path)
           w == IF warn_dir
                THEN <<Event("warn", f, install_dir, install_dir, TRUE)>> ELSE <<>>
           c == copy_to(f, install_dir, ok)
       IN  /\ events' = events \o w \o CopyEvents(c, f, install_dir)
           /\ IF c.raised
              THEN /\ ierror' = "DistutilsFileError"
                   /\ ipc' = "failed"
                   /\ UNCHANGED <<outfiles, i>>
              ELSE /\ outfiles' = Append(outfiles, c.ret[1])
                   /\ i' = i + 1
                   /\ UNCHANGED <<ierror, ipc>>
    /\ UNCHANGED <<data_files, root, j, curdir>>
    /\ UNCHANGED bvars

\* mutant of TupleEntry: no special case for an empty source list
TupleEntryWithoutEmptyCase ==
    /\ ipc = "entry"
    /\ i <= Len(data_files)
    /\ data_files[i].tag = "tuple"
    /\ LET dir == ResolveDir(data_files[i].path, root)
       IN  /\ events' = Append(events, Mkpath(dir))
           /\ curdir' = dir
           /\ IF data_files[i].files = <<>>
              THEN i' = i + 1 /\ UNCHANGED <<ipc, j>>
              ELSE ipc' = "copy" /\ j' = 1 /\ i' = i
    /\ UNCHANGED <<data_files, root, ierror, outfiles>>
    /\ UNCHANGED bvars

\* lines 141-153: the target directory is resolved and created; an empty
\* source list registers the directory itself
TupleEntry ==
    /\ ipc = "entry"
    /\ i <= Len(data_files)
    /\ data_files[i].tag = "tuple"
    /\ LET dir == ResolveDir(data_files[i].path, root)
       IN  /\ events' = Append(events, Mkpath(dir))
           /\ curdir' = dir
           /\ IF data_files[i].files = <<>>
              THEN /\ outfiles' = Append(outfiles, PathOut(dir))
                   /\ i' = i + 1
                   /\ UNCHANGED <<ipc, j>>
              ELSE /\ ipc' = "copy"
                   /\ j' = 1
                   /\ UNCHANGED <<outfiles, i>>
    /\ UNCHANGED <<data_files, root, ierror>>
    /\ UNCHANGED bvars

\* mutant of CopyData: a failed copy is noted and the loop goes on
CopyDataKeepGoing(ok) ==
    /\ ipc = "copy"
    /\ LET data == convert_path(data_files[i].files[j])
           c == copy_to(data, curdir, ok)
           last == j = Len(data_files[i].files)
       IN  /\ events' = events \o CopyEvents(c, data, curdir)
           /\ ierror' = IF c.raised THEN "DistutilsFileError" ELSE ierror
           /\ outfiles' = IF c.raised THEN outfiles ELSE Append(outfiles, c.ret[1])
           /\ IF last
              THEN ipc' = "entry" /\ i' = i + 1 /\ j' = 0
              ELSE ipc' = ipc /\ i' = i /\ j' = j + 1
    /\ UNCHANGED <<data_files, root, curdir>>
    /\ UNCHANGED bvars

\* lines 156-159: one pass of the loop over the sources of a tuple entry
CopyData(ok) ==
    /\ ipc = "copy"
    /\ LET data == convert_path(data_files[i].files[j])
           c == copy_to(data, curdir, ok)
           last == j = Len(data_files[i].files)
       IN  /\ events' = events \o CopyEvents(c, data, curdir)
           /\ IF c.raised
              THEN /\ ierror' = "DistutilsFileError"
                   /\ ipc' = "failed"
                   /\ UNCHANGED <<outfiles, i, j>>
              ELSE /\ outfiles' = Append(outfiles, c.ret[1])
                   /\ ierror' = ierror
                   /\ IF last
                      THEN ipc' = "entry" /\ i' = i + 1 /\ j' = 0
                      ELSE ipc' = ipc /\ i' = i /\ j' = j + 1
    /\ UNCHANGED <<data_files, root, curdir>>
    /\ UNCHANGED bvars

\* line 130: the loop over data_files is exhausted
RunDone ==
    /\ ipc = "entry"
    /\ i > Len(data_files)
    /\ ipc' = "done"
    /\ UNCHANGED <<data_files, root, i, j, curdir, outfiles, events, ierror>>
    /\ UNCHANGED bvars

NextInstall ==
    \/ RunStart
    \/ \E ok \in BOOLEAN : BareEntry(ok)
    \/ TupleEntry
    \/ \E ok \in BOOLEAN : CopyData(ok)
    \/ RunDone

SpecInstall == InitInstall /\ [][NextInstall]_vars


\* ================================================================== claims
Last(s) == s[Len(s)]
Elems(s) == {s[k] : k \in 1..Len(s)}
Succeeded(r) == r.launched /\ r.exitcode = 0

\* C1: the external invocations run in the order version check, then per
\* extension configure, then build; an invocation runs only if the one before
\* it returned exit code 0, so nothing runs after a failure and the build of
\* an extension follows its own successful configure.
InvocationOrder ==
    /\ Len(executed) >= 1 => executed[1].phase = "check"
    /\ \A k \in 2..Len(executed) :
        /\ Succeeded(executed[k - 1].result)
        /\ executed[k].phase \in {"config", "build"}
        /\ executed[k].phase = "config" =>
              \/ executed[k - 1].phase = "check" /\ executed[k].ext = 1
              \/ /\ executed[k - 1].phase = "build"
                 /\ executed[k].ext = executed[k - 1].ext + 1
        /\ executed[k].phase = "build" =>
              /\ executed[k - 1].phase = "config"
              /\ executed[k].ext = executed[k - 1].ext
    /\ pc = "failed" => Len(executed) >= 1 /\ ~Succeeded(Last(executed).result)
    /\ (Len(executed) >= 1 /\ ~Succeeded(Last(executed).result)) => pc = "failed"

\* witness of C1: two extensions were configured and built after the check
TwoExtensionsBuilt ==
    /\ pc = "done"
    /\ Len(extensions) = 2
    /\ Len(executed) = 5

\* C2 as stated: under dry_run no process is executed and no directory is
\* created, while every command is still logged.
DryRunHasNoSideEffects ==
    dry_run =>
        /\ executed = <<>>
        /\ created = {}
        /\ pc = "done" => Len(log) = 1 + 2 * Len(extensions)

\* C3 as stated: the error is the tool-not-found error exactly when the
\* failing invocation could not be launched.
ToolNotFoundIffLaunchFailure ==
    error.raised =>
        (error.text = CannotFindCMake <=> ~Last(executed).result.launched)

\* C4 as stated: the error that leaves build_extensions carries the argument
\* vector of the failing command and its exit code or OS error text.
ErrorCarriesCommandAndCode ==
    error.raised =>
        LET e == Last(executed)
        IN  /\ error.cmd = e.cmd
            /\ error.detail = IF e.result.launched
                              THEN ToString(e.result.exitcode)
                              ELSE e.result.oserr

\* the arguments that would select the debug profile for an extension
ExpectedExtDir(ext) ==
    IF ext.name = <<"openpose">> THEN "/proj/build/lib/openpose"
    ELSE "/proj/build/lib/pkg/openpose"

DebugProfileArgs ==
    {"Debug", "-DCMAKE_BUILD_TYPE=Debug",
     "-DCMAKE_ARCHIVE_OUTPUT_DIRECTORY_DEBUG=build/temp"}
    \cup {"-DCMAKE_LIBRARY_OUTPUT_DIRECTORY_DEBUG=" \o ExpectedExtDir(e) : e \in Extensions}
    \cup {"-DCMAKE_RUNTIME_OUTPUT_DIRECTORY_DEBUG=" \o ExpectedExtDir(e) : e \in Extensions}

\* C8: whatever the debug option, every configure command asks for the
\* Release build type with output directories keyed by RELEASE, every build
\* command passes --config Release, and no command carries the Debug profile.
AlwaysReleaseProfile ==
    \A l \in Elems(log) :
        /\ l.phase = "config" =>
              /\ "-DCMAKE_BUILD_TYPE=Release" \in Elems(l.cmd)
              /\ ("-DCMAKE_LIBRARY_OUTPUT_DIRECTORY_RELEASE="
                     \o ExpectedExtDir(extensions[l.ext])) \in Elems(l.cmd)
              /\ "-DCMAKE_ARCHIVE_OUTPUT_DIRECTORY_RELEASE=build/temp" \in Elems(l.cmd)
        /\ l.phase = "build" =>
              \E k \in 1..(Len(l.cmd) - 1) :
                  l.cmd[k] = "--config" /\ l.cmd[k + 1] = "Release"
        /\ Elems(l.cmd) \cap DebugProfileArgs = {}

\* witness of C8: a build with debug requested ran to the end
DebugRequestedAndBuilt ==
    /\ debug
    /\ pc = "done"
    /\ \E l \in Elems(log) : l.phase = "build"

ExportAllSymbols == "-DCMAKE_WINDOWS_EXPORT_ALL_SYMBOLS=TRUE"
RuntimeOutputDir(ext) ==
    "-DCMAKE_RUNTIME_OUTPUT_DIRECTORY_RELEASE=" \o ExpectedExtDir(ext)
GeneratorX64 == "-DCMAKE_GENERATOR_PLATFORM=x64"
GeneratorWin32 == "-DCMAKE_GENERATOR_PLATFORM=Win32"

\* C9: off Windows no configure command has a Windows-only option; on Windows
\* export-all-symbols and the runtime output directory are always there and
\* the generator platform is there exactly for msvc, x64 on a 64-bit host and
\* Win32 otherwise.
WindowsOnlyOptions ==
    \A l \in Elems(log) :
        l.phase = "config" =>
            LET args == Elems(l.cmd)
                ext == extensions[l.ext]
            IN  /\ plat # "Windows" =>
                      args \cap {ExportAllSymbols, RuntimeOutputDir(ext),
                                 GeneratorX64, GeneratorWin32} = {}
                /\ plat = "Windows" =>
                      /\ ExportAllSymbols \in args
                      /\ RuntimeOutputDir(ext) \in args
                      /\ GeneratorX64 \in args <=>
                             (compiler_type = "msvc" /\ arch = "64bit")
                      /\ GeneratorWin32 \in args <=>
                             (compiler_type = "msvc" /\ arch # "64bit")

\* witness of C9: a configure command was computed on 32-bit Windows for msvc
\* and pins the Win32 generator platform
ConfiguredOnWindowsWithMsvc ==
    /\ plat = "Windows"
    /\ compiler_type = "msvc"
    /\ arch = "32bit"
    /\ \E l \in Elems(log) : l.phase = "config" /\ GeneratorWin32 \in Elems(l.cmd)

\* ---- install_data
AllSources ==
    UNION {IF e.tag = "str" THEN {e.path} ELSE Elems(e.files) : e \in Elems(data_files)}

RECURSIVE OutputsOf(_, _)
\* the outputs of the sources of a list copied into dir, in order
OutputsOf(fs, dir) ==
    IF fs = <<>> THEN <<>>
    ELSE <<copy_to(fs[1], dir, TRUE).ret[1]>> \o OutputsOf(Tail(fs), dir)

EntryOutputs(e) ==
    IF e.tag = "str" THEN OutputsOf(<<e.path>>, install_dir)
    ELSE IF e.files = <<>> THEN <<PathOut(ResolveDir(e.path, root))>>
    ELSE OutputsOf(e.files, ResolveDir(e.path, root))

RECURSIVE OutputsOfEntries(_)
OutputsOfEntries(es) ==
    IF es = <<>> THEN <<>> ELSE EntryOutputs(es[1]) \o OutputsOfEntries(Tail(es))

\* the outputs of everything before source n of entry m
OutputsBefore(m, n) ==
    OutputsOfEntries(SubSeq(data_files, 1, m - 1))
        \o (IF m <= Len(data_files) /\ data_files[m].tag = "tuple" /\ n >= 1
            THEN OutputsOf(SubSeq(data_files[m].files, 1, n - 1),
                           ResolveDir(data_files[m].path, root))
            ELSE <<>>)

\* the source at manifest position (m, n)
SourceAt(m, n) ==
    IF data_files[m].tag = "str" THEN data_files[m].path ELSE data_files[m].files[n]

\* C5: a failed copy aborts the install at once: the run stops at the failing
\* source, nothing after it is copied, the output list holds exactly the
\* outputs of the sources before it in manifest order, and an install never
\* completes over a source that cannot be copied.
CopyFailureAborts ==
    /\ ierror # "" => ipc = "failed"
    /\ ipc = "done" => \A s \in AllSources : Kind(s) # "none"
    /\ ipc = "failed" =>
          /\ ierror = "DistutilsFileError"
          /\ outfiles = OutputsBefore(i, j)
          /\ Len(outfiles) =
                 Cardinality({k \in 1..Len(events) :
                                 events[k].op \in {"copy_tree", "copy_file"}
                                 /\ events[k].ok})
                 + Cardinality({k \in 1..(i - 1) :
                                   data_files[k].tag = "tuple" /\ data_files[k].files = <<>>})
          /\ \A k \in 1..Len(events) :
                (events[k].op \in {"copy_tree", "copy_file"} /\ ~events[k].ok)
                    => k = Len(events) /\ events[k].src = SourceAt(i, j)

\* witness of C5: the second source of the second entry failed after two
\* sources had been copied
FailedAfterTwoOutputs ==
    /\ ipc = "failed"
    /\ i = 2
    /\ j = 2
    /\ Len(outfiles) = 2

\* C6 as stated: every element of the output list is one destination path,
\* and a copied directory is listed by its destination target_dir/basename.
DirectoryListedByDestination ==
    (\A f \in Elems(data_files) : f.tag = "tuple") =>
        /\ \A o \in Elems(outfiles) : ~o.isList
        /\ \A e \in Elems(events) :
              (e.op = "copy_tree" /\ e.ok) =>
                  /\ e.dst = Join(e.dir, Path(FALSE, <<Basename(e.src)>>))
                  /\ PathOut(e.dst) \in Elems(outfiles)

IsEmptyTupleEntry(m) ==
    /\ m \in 1..Len(data_files)
    /\ data_files[m].tag = "tuple"
    /\ data_files[m].files = <<>>

\* the target directory a tuple entry must resolve to
ExpectedDir(m) ==
    LET d == data_files[m].path
    IN  IF ~d.abs THEN Path(TRUE, <<"dst">> \o d.parts)
        ELSE IF root = Path(TRUE, <<"stage">>) THEN Path(TRUE, <<"stage">> \o d.parts)
        ELSE d

\* C7: processing an entry with an empty source list creates the resolved
\* target directory and adds exactly one output, that directory; nothing is
\* copied.
EmptyEntryRegistersDirectory ==
    [][(ipc = "entry" /\ IsEmptyTupleEntry(i)) =>
          /\ outfiles' = Append(outfiles, PathOut(ExpectedDir(i)))
          /\ events' = Append(events, Mkpath(ExpectedDir(i)))
          /\ i' = i + 1
          /\ ipc' = "entry"]_vars

\* witness of C7: an empty entry has just been processed
EmptyEntryProcessed ==
    /\ ipc = "entry"
    /\ i >= 2
    /\ IsEmptyTupleEntry(i - 1)
    /\ Len(outfiles) >= 1
    /\ Last(outfiles) = PathOut(ExpectedDir(i - 1))

\* C10: a tuple entry's target directory is install_dir/dir for a relative
\* dir, root/dir for an absolute dir under an active root, and dir itself
\* otherwise; it is created before any source of the entry is copied, and the
\* sources are copied into it.
TargetDirResolvedAndCreatedFirst ==
    \A m \in 1..Len(data_files) :
        (data_files[m].tag = "tuple" /\ (m < i \/ (m = i /\ ipc \in {"copy", "failed"}))) =>
            \E k \in 1..Len(events) :
                /\ events[k].op = "mkpath"
                /\ events[k].entry = m
                /\ events[k].dst = ExpectedDir(m)
                /\ \A c \in 1..Len(events) :
                      (events[c].entry = m /\ events[c].op \in {"copy_tree", "copy_file"}) =>
                          /\ k < c
                          /\ events[c].dir = ExpectedDir(m)

\* witness of C10: a source was copied into an absolute target directory
\* rewritten under the root
CopiedUnderRoot ==
    /\ RootActive(root)
    /\ \E c \in 1..Len(events) :
          /\ events[c].op = "copy_file"
          /\ events[c].ok
          /\ data_files[events[c].entry].tag = "tuple"
          /\ data_files[events[c].entry].path.abs
          /\ events[c].dir = Path(TRUE, <<"stage", "opt", "share">>)

====
